---- MODULE Spec2Model ----
(***************************************************************************)
(* Model of the auto-response rule store of mcp_Discord:                   *)
(*   src/src/template_server/auto_response.py  AutoResponseRule,           *)
(*                                             AutoResponseManager         *)
(*   src/src/template_server/server.py         the tool add_auto_response_ *)
(*                                             rule over the manager       *)
(*                                                                         *)
(* Texts (str) are sequences of one-character strings.  Rule ids (the text *)
(* of a uuid4) are numbers: uuid4() is modelled as a counter, i.e. as a    *)
(* generator that never repeats a value and never produces a value that a  *)
(* backing file already holds.                                             *)
(***************************************************************************)
EXTENDS Integers, Sequences, FiniteSets, TLC

VARIABLES
    store,    \* "none": no AutoResponseManager object; "ready": constructed
    rules,    \* AutoResponseManager.rules, the in-memory list
    file,     \* content of the backing file at config_path
    nextId,   \* the next value uuid4() produces
    faults,   \* how many writes of the backing file have failed so far
    ret,      \* the outcome of the last call: what it returned or raised
    snap,     \* the list a caller got from get_rules and still holds
    conc      \* the calls in progress on concurrent threads

vars == <<store, rules, file, nextId, faults, ret, snap, conc>>

(***************************************************************************)
(* Bounds of the model.                                                    *)
(***************************************************************************)
MaxLen == 2      \* longest message text handed to matches
MaxRules == 2    \* add_rule is not called on a longer collection
MaxId == 4       \* uuid4() is not called once the counter has passed this
MaxFaults == 1   \* the file system fails at most this many writes

(***************************************************************************)
(* Texts.                                                                  *)
(***************************************************************************)
Chars == {"a", "A", ".", "("}

RECURSIVE SeqsUpTo(_)
SeqsUpTo(n) ==
    IF n = 0 THEN {<<>>}
    ELSE LET prev == SeqsUpTo(n - 1)
         IN  prev \cup {Append(s, c) : s \in {p \in prev : Len(p) = n - 1}, c \in Chars}

Texts == SeqsUpTo(MaxLen)

ValidMatchTypes == {"exact", "contains", "startswith", "regex"}
MatchTypes == ValidMatchTypes \cup {"fuzzy"}

\* the (trigger, response, match_type) arguments the model gives to add_rule
RuleArgs ==
    { <<<<"a">>, "r1", "contains">>,
      <<<<"a">>, "r2", "exact">>,
      <<<<"a">>, "r2", "startswith">>,
      <<<<".">>, "r2", "regex">>,
      <<<<"(">>, "r1", "regex">>,
      <<<<"a">>, "r1", "fuzzy">> }

(***************************************************************************)
(* AutoResponseRule.matches                                                *)
(***************************************************************************)
\* str.startswith / the comparison at one offset: pat occurs in s at off+1..
RECURSIVE OccursAt(_, _, _, _)
OccursAt(pat, s, off, k) ==
    IF k > Len(pat) THEN TRUE
    ELSE IF off + k > Len(s) THEN FALSE
    ELSE IF s[off + k] # pat[k] THEN FALSE
    ELSE OccursAt(pat, s, off, k + 1)

\* startswith that accepts the prefix at any offset
str_startswith_anywhere(s, prefix) ==
    \E off \in 0..Len(s) : OccursAt(prefix, s, off, 1)

str_startswith(s, prefix) == OccursAt(prefix, s, 0, 1)

\* `sub in s`: scan of the offsets 0..len(s)-len(sub)
RECURSIVE ScanFrom(_, _, _)
ScanFrom(sub, s, off) ==
    IF off + Len(sub) > Len(s) THEN FALSE
    ELSE IF OccursAt(sub, s, off, 1) THEN TRUE
    ELSE ScanFrom(sub, s, off + 1)

str_contains(s, sub) == ScanFrom(sub, s, 0)

str_eq(a, b) == a = b

\* re.compile on the patterns over Chars: "(" opens a group that nothing in
\* the alphabet closes, so every pattern holding "(" raises re.error.
re_compiles(pattern) == \A k \in 1..Len(pattern) : pattern[k] # "("

\* one compiled pattern element against one character: "." is any character
\* (the alphabet has no newline), every other element is a literal.
re_elem(p, c) == p = "." \/ p = c

RECURSIVE re_match_at(_, _, _, _)
re_match_at(pattern, s, off, k) ==
    IF k > Len(pattern) THEN TRUE
    ELSE IF off + k > Len(s) THEN FALSE
    ELSE IF ~re_elem(pattern[k], s[off + k]) THEN FALSE
    ELSE re_match_at(pattern, s, off, k + 1)

\* re.search: "re.error" when the pattern does not compile, else whether the
\* pattern matches at some offset (unanchored)
re_search(pattern, s) ==
    IF ~re_compiles(pattern) THEN "re.error"
    ELSE IF \E off \in 0..Len(s) : re_match_at(pattern, s, off, 1) THEN "match"
    ELSE "None"

\* matches with the enabled test left out
matches_ignoring_enabled(rule, message) ==
    IF rule.match_type = "exact" THEN
        IF str_eq(message, rule.trigger) THEN "True" ELSE "False"
    ELSE IF rule.match_type = "contains" THEN
        IF str_contains(message, rule.trigger) THEN "True" ELSE "False"
    ELSE IF rule.match_type = "startswith" THEN
        IF str_startswith(message, rule.trigger) THEN "True" ELSE "False"
    ELSE IF rule.match_type = "regex" THEN
        LET r == re_search(rule.trigger, message)
        IN  IF r = "re.error" THEN "False"
            ELSE IF r = "match" THEN "True" ELSE "False"
    ELSE "False"

\* matches without the try/except around re.search
matches_uncaught(rule, message) ==
    IF ~rule.enabled THEN "False"
    ELSE IF rule.match_type = "regex" /\ re_search(rule.trigger, message) = "re.error"
         THEN "raise"
    ELSE matches_ignoring_enabled(rule, message)

\* the outcome of rule.matches(message): "True", "False", or "raise"
matches(rule, message) ==
    IF ~rule.enabled THEN "False"
    ELSE IF rule.match_type = "exact" THEN
        IF str_eq(message, rule.trigger) THEN "True" ELSE "False"
    ELSE IF rule.match_type = "contains" THEN
        IF str_contains(message, rule.trigger) THEN "True" ELSE "False"
    ELSE IF rule.match_type = "startswith" THEN
        IF str_startswith(message, rule.trigger) THEN "True" ELSE "False"
    ELSE IF rule.match_type = "regex" THEN
        LET r == re_search(rule.trigger, message)
        IN  IF r = "re.error" THEN "False"
            ELSE IF r = "match" THEN "True" ELSE "False"
    ELSE "False"

(***************************************************************************)
(* The backing file.                                                       *)
(*   state "absent"      no file at config_path                            *)
(*         "invalid"     text json.load rejects (JSONDecodeError); an      *)
(*                       empty or truncated file is of this kind           *)
(*         "nonobject"   a JSON document whose top level is not an object  *)
(*         "norules"     an object without the key "rules"                 *)
(*         "rulesscalar" an object whose "rules" is a number, bool or null *)
(*         "ruleslist"   an object whose "rules" is the list `items`       *)
(* An item is [type, members]: a JSON object with its members in document  *)
(* order, each <<key, value>>, or a scalar (type "scalar").                *)
(***************************************************************************)
FieldNames == {"trigger", "response", "match_type", "enabled", "id"}
RequiredFields == {"trigger", "response"}

File(state, items) == [state |-> state, items |-> items]
Obj(members) == [type |-> "object", members |-> members]
Scalar == [type |-> "scalar", members |-> <<>>]

Rule(trigger, response, match_type, enabled, id) ==
    [trigger |-> trigger, response |-> response, match_type |-> match_type,
     enabled |-> enabled, id |-> id]

\* asdict that leaves the enabled flag out
asdict_without_enabled(rule) ==
    << <<"trigger", rule.trigger>>, <<"response", rule.response>>,
       <<"match_type", rule.match_type>>, <<"id", rule.id>> >>

\* dataclasses.asdict: the fields in declaration order
asdict(rule) ==
    << <<"trigger", rule.trigger>>, <<"response", rule.response>>,
       <<"match_type", rule.match_type>>, <<"enabled", rule.enabled>>,
       <<"id", rule.id>> >>

\* the document json.dump writes for the list rs
serialize(rs) == File("ruleslist", [i \in 1..Len(rs) |-> Obj(asdict(rs[i]))])

\* a dict built from JSON members: its keys, and the value of a key (the
\* last member with that key)
Keys(members) == {members[i][1] : i \in 1..Len(members)}
Value(members, key) ==
    LET last == CHOOSE i \in 1..Len(members) :
                    /\ members[i][1] = key
                    /\ \A j \in (i + 1)..Len(members) : members[j][1] # key
    IN  members[last][2]

\* AutoResponseRule(**item) raises TypeError: not a mapping, an unexpected
\* keyword, or a required field missing
ctor_raises(item) ==
    \/ item.type # "object"
    \/ ~(Keys(item.members) \subseteq FieldNames)
    \/ ~(RequiredFields \subseteq Keys(item.members))

\* AutoResponseRule(**item), defaults applied; nid is what uuid4() gives
ctor(item, nid) ==
    LET m == item.members
        has(k) == k \in Keys(m)
    IN  Rule(Value(m, "trigger"),
             Value(m, "response"),
             IF has("match_type") THEN Value(m, "match_type") ELSE "contains",
             IF has("enabled") THEN Value(m, "enabled") ELSE TRUE,
             IF has("id") THEN Value(m, "id") ELSE nid)

\* the list comprehension of _load_rules over items[k..]: acc is the list
\* built so far, nid the uuid4 counter
RECURSIVE Comprehension(_, _, _, _)
Comprehension(items, k, acc, nid) ==
    IF k > Len(items) THEN [raised |-> "", rules |-> acc, nextId |-> nid]
    ELSE IF ctor_raises(items[k])
         THEN [raised |-> "TypeError", rules |-> <<>>, nextId |-> nid]
    ELSE LET fresh == "id" \notin Keys(items[k].members)
         IN  Comprehension(items, k + 1, Append(acc, ctor(items[k], nid)),
                           IF fresh THEN nid + 1 ELSE nid)

\* _load_rules: [raised, rules, nextId]; raised is the exception that leaves
\* the method ("" when it returns)
_load_rules(f, nid) ==
    IF f.state = "absent" THEN [raised |-> "", rules |-> <<>>, nextId |-> nid]
    ELSE IF f.state = "invalid"          \* json.JSONDecodeError, caught
         THEN [raised |-> "", rules |-> <<>>, nextId |-> nid]
    ELSE IF f.state = "nonobject"        \* data.get: AttributeError, not caught
         THEN [raised |-> "AttributeError", rules |-> <<>>, nextId |-> nid]
    ELSE IF f.state = "norules"          \* data.get("rules", []) is []
         THEN [raised |-> "", rules |-> <<>>, nextId |-> nid]
    ELSE IF f.state = "rulesscalar"      \* not iterable: TypeError, caught
         THEN [raised |-> "", rules |-> <<>>, nextId |-> nid]
    ELSE LET c == Comprehension(f.items, 1, <<>>, nid)
         IN  IF c.raised = "TypeError"   \* caught: self.rules = []
             THEN [raised |-> "", rules |-> <<>>, nextId |-> c.nextId]
             ELSE c

\* _save_rules under the file system's behaviour fs:
\*   "ok"          open and json.dump succeed
\*   "open_fails"  open(..., "w") raises OSError; the file is not touched
\*   "write_fails" open truncates the file, then the write raises OSError
FsModes == {"ok", "open_fails", "write_fails"}

_save_rules(rs, f, fs) ==
    IF fs = "ok" THEN [raised |-> "", file |-> serialize(rs)]
    ELSE IF fs = "open_fails" THEN [raised |-> "OSError", file |-> f]
    ELSE [raised |-> "OSError", file |-> File("invalid", <<>>)]

(***************************************************************************)
(* AutoResponseManager: the methods as functions of the state they read.   *)
(* Each gives the state it leaves and what it returns: out is the kind of  *)
(* result, n/s its number/text ("raise": s names the exception).           *)
(***************************************************************************)
\* arg is the match_type argument of an add, msg the message of a match.
Ret(op, arg, msg, out, n, s) ==
    [op |-> op, arg |-> arg, msg |-> msg, out |-> out, n |-> n, s |-> s]

\* the position of the first rule with this id, 0 when there is none
RECURSIVE IndexOfId(_, _, _)
IndexOfId(rs, rule_id, k) ==
    IF k > Len(rs) THEN 0
    ELSE IF rs[k].id = rule_id THEN k
    ELSE IndexOfId(rs, rule_id, k + 1)

\* list.pop(i)
Pop(rs, i) == [k \in 1..(Len(rs) - 1) |-> IF k < i THEN rs[k] ELSE rs[k + 1]]

\* the loop of find_matching_response from position k on
RECURSIVE FindFrom(_, _, _)
FindFrom(rs, message, k) ==
    IF k > Len(rs) THEN [out |-> "None", n |-> 0, s |-> ""]
    ELSE LET m == matches(rs[k], message)
         IN  IF m = "raise" THEN [out |-> "raise", n |-> k, s |-> "re.error"]
             ELSE IF m = "True" THEN [out |-> "response", n |-> k, s |-> rs[k].response]
             ELSE FindFrom(rs, message, k + 1)

\* find_matching_response scanning from the end: the last match wins
RECURSIVE FindBackFrom(_, _, _)
FindBackFrom(rs, message, k) ==
    IF k < 1 THEN [out |-> "None", n |-> 0, s |-> ""]
    ELSE LET m == matches(rs[k], message)
         IN  IF m = "raise" THEN [out |-> "raise", n |-> k, s |-> "re.error"]
             ELSE IF m = "True" THEN [out |-> "response", n |-> k, s |-> rs[k].response]
             ELSE FindBackFrom(rs, message, k - 1)

find_last_match(rs, message) == FindBackFrom(rs, message, Len(rs))

\* find_matching_response: n is the position of the rule that answered
find_matching_response(rs, message) == FindFrom(rs, message, 1)

\* add_rule that takes the rule out of the collection again when the save
\* has failed
add_rule_rolls_back(rs, f, nid, trigger, response, match_type, fs) ==
    LET rule == Rule(trigger, response, match_type, TRUE, nid)
        appended == Append(rs, rule)
        sv == _save_rules(appended, f, fs)
    IN  [rules |-> IF sv.raised = "" THEN appended ELSE rs,
         file |-> sv.file, nextId |-> nid + 1,
         out |-> IF sv.raised = "" THEN "rule" ELSE "raise",
         n |-> IF sv.raised = "" THEN rule.id ELSE 0,
         s |-> sv.raised]

add_rule(rs, f, nid, trigger, response, match_type, fs) ==
    LET rule == Rule(trigger, response, match_type, TRUE, nid)
        appended == Append(rs, rule)
        sv == _save_rules(appended, f, fs)
    IN  [rules |-> appended, file |-> sv.file, nextId |-> nid + 1,
         out |-> IF sv.raised = "" THEN "rule" ELSE "raise",
         n |-> IF sv.raised = "" THEN rule.id ELSE 0,
         s |-> sv.raised]

\* remove_rule that saves whether or not it removed a rule
remove_rule_always_saves(rs, f, rule_id, fs) ==
    LET i == IndexOfId(rs, rule_id, 1)
        left == IF i = 0 THEN rs ELSE Pop(rs, i)
        sv == _save_rules(left, f, fs)
    IN  [rules |-> left, file |-> sv.file,
         out |-> IF sv.raised # "" THEN "raise"
                 ELSE IF i = 0 THEN "False" ELSE "True",
         s |-> sv.raised]

remove_rule(rs, f, rule_id, fs) ==
    LET i == IndexOfId(rs, rule_id, 1)
    IN  IF i = 0 THEN [rules |-> rs, file |-> f, out |-> "False", s |-> ""]
        ELSE LET popped == Pop(rs, i)
                 sv == _save_rules(popped, f, fs)
             IN  [rules |-> popped, file |-> sv.file,
                  out |-> IF sv.raised = "" THEN "True" ELSE "raise",
                  s |-> sv.raised]

\* toggle_rule that returns the flag as it was before the flip
toggle_rule_returns_old(rs, f, rule_id, fs) ==
    LET i == IndexOfId(rs, rule_id, 1)
    IN  IF i = 0 THEN [rules |-> rs, file |-> f, out |-> "None", s |-> ""]
        ELSE LET flipped == [rs EXCEPT ![i].enabled = ~rs[i].enabled]
                 sv == _save_rules(flipped, f, fs)
             IN  [rules |-> flipped, file |-> sv.file,
                  out |-> IF sv.raised # "" THEN "raise"
                          ELSE IF rs[i].enabled THEN "True" ELSE "False",
                  s |-> sv.raised]

\* toggle_rule that only ever disables
toggle_rule_disables(rs, f, rule_id, fs) ==
    LET i == IndexOfId(rs, rule_id, 1)
    IN  IF i = 0 THEN [rules |-> rs, file |-> f, out |-> "None", s |-> ""]
        ELSE LET flipped == [rs EXCEPT ![i].enabled = FALSE]
                 sv == _save_rules(flipped, f, fs)
             IN  [rules |-> flipped, file |-> sv.file,
                  out |-> IF sv.raised # "" THEN "raise" ELSE "False",
                  s |-> sv.raised]

\* toggle_rule that flips the flag in memory and does not save
toggle_rule_unsaved(rs, f, rule_id, fs) ==
    LET i == IndexOfId(rs, rule_id, 1)
    IN  IF i = 0 THEN [rules |-> rs, file |-> f, out |-> "None", s |-> ""]
        ELSE LET flipped == [rs EXCEPT ![i].enabled = ~rs[i].enabled]
             IN  [rules |-> flipped, file |-> f,
                  out |-> IF flipped[i].enabled THEN "True" ELSE "False",
                  s |-> ""]

toggle_rule(rs, f, rule_id, fs) ==
    LET i == IndexOfId(rs, rule_id, 1)
    IN  IF i = 0 THEN [rules |-> rs, file |-> f, out |-> "None", s |-> ""]
        ELSE LET flipped == [rs EXCEPT ![i].enabled = ~rs[i].enabled]
                 sv == _save_rules(flipped, f, fs)
             IN  [rules |-> flipped, file |-> sv.file,
                  out |-> IF sv.raised # "" THEN "raise"
                          ELSE IF flipped[i].enabled THEN "True" ELSE "False",
                  s |-> sv.raised]

\* clear_all_rules that counts after it has emptied the list
clear_all_rules_counts_after(rs, f, fs) ==
    LET sv == _save_rules(<<>>, f, fs)
    IN  [rules |-> <<>>, file |-> sv.file,
         out |-> IF sv.raised = "" THEN "count" ELSE "raise",
         n |-> 0,
         s |-> sv.raised]

clear_all_rules(rs, f, fs) ==
    LET sv == _save_rules(<<>>, f, fs)
    IN  [rules |-> <<>>, file |-> sv.file,
         out |-> IF sv.raised = "" THEN "count" ELSE "raise",
         n |-> IF sv.raised = "" THEN Len(rs) ELSE 0,
         s |-> sv.raised]

(***************************************************************************)
(* server.py: the tool add_auto_response_rule over the module's manager.   *)
(***************************************************************************)
\* the parameters of AutoResponseManager.add_rule (self aside), those
\* without a default, and the keywords the tool passes
add_rule_params == {"trigger", "response", "match_type"}
add_rule_required == {"trigger", "response"}
tool_keywords == {"friend_id", "trigger", "response", "friend_name", "match_type"}

\* a call by keywords raises TypeError before the body runs: an unexpected
\* keyword, or a parameter without default not given
call_raises(params, required, keywords) ==
    \/ ~(keywords \subseteq params)
    \/ ~(required \subseteq keywords)

\* the tool without its test of match_type
add_auto_response_rule_unvalidated(rs, f, nid, trigger, response, match_type, fs) ==
    IF call_raises(add_rule_params, add_rule_required, tool_keywords)
    THEN [rules |-> rs, file |-> f, nextId |-> nid,
          out |-> "raise", n |-> 0, s |-> "TypeError"]
    ELSE LET r == add_rule(rs, f, nid, trigger, response, match_type, fs)
         IN  IF r.out = "raise" THEN r
             ELSE [r EXCEPT !.out = "ok_string", !.s = "Rule added successfully"]

add_auto_response_rule(rs, f, nid, trigger, response, match_type, fs) ==
    IF match_type \notin {"exact", "contains", "startswith", "regex"}
    THEN [rules |-> rs, file |-> f, nextId |-> nid,
          out |-> "error_string", n |-> 0, s |-> "Invalid match_type"]
    ELSE IF call_raises(add_rule_params, add_rule_required, tool_keywords)
    THEN [rules |-> rs, file |-> f, nextId |-> nid,
          out |-> "raise", n |-> 0, s |-> "TypeError"]
    ELSE LET r == add_rule(rs, f, nid, trigger, response, match_type, fs)
         IN  IF r.out = "raise" THEN r
             ELSE [r EXCEPT !.out = "ok_string", !.s = "Rule added successfully"]

(***************************************************************************)
(* get_rules and the list it returns.  self.rules.copy() is a new list     *)
(* holding the same AutoResponseRule objects.  An element of snap is        *)
(* [ref, obj]: ref > 0 says it is the object at position ref of             *)
(* self.rules (obj is NoObj then); ref = 0 says the store no longer holds   *)
(* the object, whose fields are obj.                                        *)
(***************************************************************************)
NoObj == Rule(<<>>, "", "", FALSE, 0)

get_rules(rs) == [k \in 1..Len(rs) |-> [ref |-> k, obj |-> NoObj]]

\* the fields of the object an element of the caller's list refers to
Deref(rs, e) == IF e.ref > 0 THEN rs[e.ref] ELSE e.obj

\* the caller's list after self.rules.pop(i) (position i, 1-based)
SnapAfterPop(sn, rs, i) ==
    [k \in 1..Len(sn) |->
        IF sn[k].ref = i THEN [ref |-> 0, obj |-> rs[i]]
        ELSE IF sn[k].ref > i THEN [sn[k] EXCEPT !.ref = sn[k].ref - 1]
        ELSE sn[k]]

\* the caller's list after self.rules is bound to another list
SnapAfterRebind(sn, rs) ==
    [k \in 1..Len(sn) |-> [ref |-> 0, obj |-> Deref(rs, sn[k])]]

(***************************************************************************)
(* server.py: the other tools, and the on_message handler.                 *)
(***************************************************************************)
\* a call by position raises TypeError before the body runs when it gives
\* more arguments than the method has parameters (self aside)
positional_raises(params, args) == Len(args) > Len(params)

get_rules_params == <<>>
list_tool_args == <<"friend_id">>
find_matching_response_params == <<"message">>
on_message_args == <<"author_id", "content">>

\* the attributes of a rule the listing reads
list_tool_reads == {"enabled", "friend_name", "id", "friend_id",
                    "match_type", "trigger", "response"}

remove_auto_response_rule(rs, f, rule_id, fs) ==
    LET r == remove_rule(rs, f, rule_id, fs)
    IN  IF r.out = "raise" THEN r
        ELSE IF r.out = "True"
        THEN [r EXCEPT !.out = "ok_string", !.s = "removed successfully"]
        ELSE [r EXCEPT !.out = "error_string", !.s = "not found"]

list_auto_response_rules(rs) ==
    IF positional_raises(get_rules_params, list_tool_args)
    THEN [out |-> "raise", s |-> "TypeError"]
    ELSE IF get_rules(rs) = <<>>
    THEN [out |-> "ok_string", s |-> "No rules"]
    ELSE IF ~(list_tool_reads \subseteq FieldNames)
    THEN [out |-> "raise", s |-> "AttributeError"]
    ELSE [out |-> "ok_string", s |-> "listing"]

toggle_auto_response_rule(rs, f, rule_id, fs) ==
    LET r == toggle_rule(rs, f, rule_id, fs)
    IN  IF r.out = "raise" THEN r
        ELSE IF r.out = "None"
        THEN [r EXCEPT !.out = "error_string", !.s = "not found"]
        ELSE [r EXCEPT !.out = "ok_string",
                       !.s = IF r.out = "True" THEN "enabled" ELSE "disabled"]

\* the tool clear_all_rules of server.py
tool_clear_all_rules(rs, f, fs) ==
    LET r == clear_all_rules(rs, f, fs)
    IN  IF r.out = "raise" THEN r
        ELSE [r EXCEPT !.out = "ok_string", !.s = "Cleared"]

\* on_message for a message that is or is not a direct message of another
\* user: the answer it sends, if any
on_message(rs, message, dm) ==
    IF ~dm THEN [out |-> "None", n |-> 0, s |-> ""]
    ELSE IF positional_raises(find_matching_response_params, on_message_args)
    THEN [out |-> "raise", n |-> 0, s |-> "TypeError"]
    ELSE find_matching_response(rs, message)

\* no call is in progress on another thread.  base and bfile are the
\* collection and the file when the calls in progress began, flen the length
\* of the file's content since the calls began, th the calls.
NoConc == [base |-> <<>>, bfile |-> File("absent", <<>>), flen |-> 0, th |-> <<>>]

(***************************************************************************)
(* The states the program starts in: no manager yet, and a backing file    *)
(* that is absent or holds what an earlier run or an editor left there.    *)
(***************************************************************************)
FirstId == 3     \* backing files hold ids below it; uuid4() starts here

Rec1 == Obj(asdict(Rule(<<"a">>, "r1", "contains", TRUE, 1)))
Rec2 == Obj(asdict(Rule(<<"a">>, "r2", "exact", FALSE, 2)))
RecSameId == Obj(asdict(Rule(<<"(">>, "r2", "regex", TRUE, 1)))
RecFuzzy == Obj(asdict(Rule(<<"a">>, "r1", "fuzzy", TRUE, 2)))
RecNoResponse == Obj(<< <<"trigger", <<"a">>>>, <<"id", 1>> >>)
RecExtraKey == Obj(Append(asdict(Rule(<<"a">>, "r1", "contains", TRUE, 1)),
                          <<"friend_id", 1>>))
RecDefaults == Obj(<< <<"response", "r2">>, <<"trigger", <<".">>>> >>)

InitFiles ==
    { File("absent", <<>>), File("invalid", <<>>), File("nonobject", <<>>),
      File("norules", <<>>), File("rulesscalar", <<>>),
      File("ruleslist", <<>>),
      File("ruleslist", <<Rec1, Rec2>>),
      File("ruleslist", <<Rec1, RecSameId>>),
      File("ruleslist", <<RecFuzzy>>),
      File("ruleslist", <<Rec1, RecNoResponse>>),
      File("ruleslist", <<Rec1, Scalar>>),
      File("ruleslist", <<RecExtraKey>>),
      File("ruleslist", <<RecDefaults>>) }

Ids == 1..MaxId
\* the messages the model hands to find_matching_response
Messages == {<<>>, <<"a">>, <<"A">>, <<"(">>, <<".", "a">>}

Init ==
    /\ store = "none"
    /\ rules = <<>>
    /\ file \in InitFiles
    /\ nextId = FirstId
    /\ faults = 0
    /\ ret = Ret("start", "", <<>>, "", 0, "")
    /\ snap = <<>>
    /\ conc = NoConc

\* what the file system may do to the next write: it never fails (NoFaults),
\* or it fails at most MaxFaults writes of a run (SomeFaults)
NoFaults == {"ok"}
SomeFaults == IF faults < MaxFaults THEN FsModes ELSE {"ok"}
Faults(raised) == IF raised = "OSError" THEN faults + 1 ELSE faults

\* AutoResponseManager(config_path): a store constructed on the backing file
Construct ==
    LET l == _load_rules(file, nextId)
    IN  /\ l.nextId <= MaxId + 1
        /\ store' = IF l.raised = "" THEN "ready" ELSE "none"
        /\ rules' = l.rules
        /\ nextId' = l.nextId
        /\ ret' = IF l.raised = "" THEN Ret("__init__", "", <<>>, "ok", Len(l.rules), "")
                  ELSE Ret("__init__", "", <<>>, "raise", 0, l.raised)
        /\ snap' = SnapAfterRebind(snap, rules)
        /\ UNCHANGED <<file, faults, conc>>

AddRule(FS) ==
    /\ store = "ready"
    /\ Len(rules) < MaxRules
    /\ nextId <= MaxId
    /\ \E args \in RuleArgs, fs \in FS :
          LET r == add_rule(rules, file, nextId, args[1], args[2], args[3], fs)
          IN  /\ rules' = r.rules
              /\ file' = r.file
              /\ nextId' = r.nextId
              /\ faults' = Faults(r.s)
              /\ ret' = Ret("add_rule", args[3], <<>>, r.out, r.n, r.s)
              /\ UNCHANGED <<store, snap, conc>>

RemoveRule(FS) ==
    /\ store = "ready"
    /\ \E rule_id \in Ids, fs \in FS :
          LET r == remove_rule(rules, file, rule_id, fs)
          IN  /\ rules' = r.rules
              /\ file' = r.file
              /\ faults' = Faults(r.s)
              /\ ret' = Ret("remove_rule", "", <<>>, r.out, rule_id, r.s)
              /\ snap' = IF Len(r.rules) < Len(rules)
                         THEN SnapAfterPop(snap, rules, IndexOfId(rules, rule_id, 1))
                         ELSE snap
              /\ UNCHANGED <<store, nextId, conc>>

ToggleRule(FS) ==
    /\ store = "ready"
    /\ \E rule_id \in Ids, fs \in FS :
          LET r == toggle_rule(rules, file, rule_id, fs)
          IN  /\ rules' = r.rules
              /\ file' = r.file
              /\ faults' = Faults(r.s)
              /\ ret' = Ret("toggle_rule", "", <<>>, r.out, rule_id, r.s)
              /\ UNCHANGED <<store, nextId, snap, conc>>

ClearAllRules(FS) ==
    /\ store = "ready"
    /\ \E fs \in FS :
          LET r == clear_all_rules(rules, file, fs)
          IN  /\ rules' = r.rules
              /\ file' = r.file
              /\ faults' = Faults(r.s)
              /\ ret' = Ret("clear_all_rules", "", <<>>, r.out, r.n, r.s)
              /\ snap' = SnapAfterRebind(snap, rules)
              /\ UNCHANGED <<store, nextId, conc>>

AddAutoResponseRule(FS) ==
    /\ store = "ready"
    /\ \E args \in RuleArgs, fs \in FS :
          LET r == add_auto_response_rule(rules, file, nextId,
                                          args[1], args[2], args[3], fs)
          IN  /\ r.rules # rules => (Len(rules) < MaxRules /\ nextId <= MaxId)
              /\ rules' = r.rules
              /\ file' = r.file
              /\ nextId' = r.nextId
              /\ faults' = Faults(IF r.out = "raise" THEN r.s ELSE "")
              /\ ret' = Ret("add_auto_response_rule", args[3], <<>>, r.out, r.n, r.s)
              /\ UNCHANGED <<store, snap, conc>>

FindMatchingResponse ==
    /\ store = "ready"
    /\ \E message \in Messages :
          LET r == find_matching_response(rules, message)
          IN  /\ ret' = Ret("find_matching_response", "", message, r.out, r.n, r.s)
              /\ UNCHANGED <<store, rules, file, nextId, faults, snap, conc>>

Next ==
    \/ Construct
    \/ AddRule(NoFaults)
    \/ RemoveRule(NoFaults)
    \/ ToggleRule(NoFaults)
    \/ ClearAllRules(NoFaults)
    \/ AddAutoResponseRule(NoFaults)
    \/ FindMatchingResponse

Spec == Init /\ [][Next]_vars

\* add_rule of a rule of one match type
AddContainsRule(FS) ==
    /\ AddRule(FS)
    /\ ret'.arg = "contains"

\* the store and its mutating operations on a file system that may fail to
\* open the file or to write it
NextFs ==
    \/ Construct
    \/ AddContainsRule(SomeFaults)
    \/ RemoveRule(SomeFaults)
    \/ ToggleRule(SomeFaults)
    \/ ClearAllRules(SomeFaults)

SpecFs == Init /\ [][NextFs]_vars

(***************************************************************************)
(* The tools of server.py and its message handler over the module's        *)
(* manager.                                                                 *)
(***************************************************************************)
RemoveAutoResponseRule(FS) ==
    /\ store = "ready"
    /\ \E rule_id \in Ids, fs \in FS :
          LET r == remove_auto_response_rule(rules, file, rule_id, fs)
          IN  /\ rules' = r.rules
              /\ file' = r.file
              /\ faults' = Faults(IF r.out = "raise" THEN r.s ELSE "")
              /\ ret' = Ret("remove_auto_response_rule", "", <<>>, r.out, rule_id, r.s)
              /\ snap' = IF Len(r.rules) < Len(rules)
                         THEN SnapAfterPop(snap, rules, IndexOfId(rules, rule_id, 1))
                         ELSE snap
              /\ UNCHANGED <<store, nextId, conc>>

ListAutoResponseRules ==
    /\ store = "ready"
    /\ LET r == list_auto_response_rules(rules)
       IN  /\ ret' = Ret("list_auto_response_rules", "", <<>>, r.out, 0, r.s)
           /\ UNCHANGED <<store, rules, file, nextId, faults, snap, conc>>

ToggleAutoResponseRule(FS) ==
    /\ store = "ready"
    /\ \E rule_id \in Ids, fs \in FS :
          LET r == toggle_auto_response_rule(rules, file, rule_id, fs)
          IN  /\ rules' = r.rules
              /\ file' = r.file
              /\ faults' = Faults(IF r.out = "raise" THEN r.s ELSE "")
              /\ ret' = Ret("toggle_auto_response_rule", "", <<>>, r.out, rule_id, r.s)
              /\ UNCHANGED <<store, nextId, snap, conc>>

ToolClearAllRules(FS) ==
    /\ store = "ready"
    /\ \E fs \in FS :
          LET r == tool_clear_all_rules(rules, file, fs)
          IN  /\ rules' = r.rules
              /\ file' = r.file
              /\ faults' = Faults(IF r.out = "raise" THEN r.s ELSE "")
              /\ ret' = Ret("tool_clear_all_rules", "", <<>>, r.out, r.n, r.s)
              /\ snap' = SnapAfterRebind(snap, rules)
              /\ UNCHANGED <<store, nextId, conc>>

OnMessage ==
    /\ store = "ready"
    /\ \E message \in Messages, dm \in BOOLEAN :
          LET r == on_message(rules, message, dm)
          IN  /\ ret' = Ret("on_message", IF dm THEN "dm" ELSE "", message,
                            r.out, r.n, r.s)
              /\ UNCHANGED <<store, rules, file, nextId, faults, snap, conc>>

NextTools ==
    \/ Construct
    \/ AddAutoResponseRule(NoFaults)
    \/ RemoveAutoResponseRule(NoFaults)
    \/ ListAutoResponseRules
    \/ ToggleAutoResponseRule(NoFaults)
    \/ ToolClearAllRules(NoFaults)
    \/ OnMessage

SpecTools == Init /\ [][NextTools]_vars

(***************************************************************************)
(* A caller of get_rules and what it does with the list it got: it takes   *)
(* an element out, appends a rule of its own, or assigns a field of one of *)
(* the rules in the list.                                                   *)
(***************************************************************************)
GetRules ==
    /\ store = "ready"
    /\ snap' = get_rules(rules)
    /\ ret' = Ret("get_rules", "", <<>>, "list", Len(rules), "")
    /\ UNCHANGED <<store, rules, file, nextId, faults, conc>>

\* snapshot.pop(k - 1)
SnapshotPop ==
    \E k \in 1..Len(snap) :
        /\ snap' = Pop(snap, k)
        /\ ret' = Ret("snapshot.pop", "", <<>>, "rule", k, "")
        /\ UNCHANGED <<store, rules, file, nextId, faults, conc>>

\* snapshot.append(AutoResponseRule(trigger, response, match_type)): the id
\* comes from uuid4() as any rule's does
SnapshotAppend ==
    /\ Len(snap) < MaxRules
    /\ nextId <= MaxId
    /\ \E args \in RuleArgs :
          /\ args[3] = "exact"
          /\ snap' = Append(snap, [ref |-> 0,
                        obj |-> Rule(args[1], args[2], args[3], TRUE, nextId)])
          /\ nextId' = nextId + 1
          /\ ret' = Ret("snapshot.append", args[3], <<>>, "None", 0, "")
          /\ UNCHANGED <<store, rules, file, faults, conc>>

\* snapshot[k - 1].enabled = enabled: an assignment to the rule object, which
\* is the store's own while the store holds it
SnapshotSetEnabled ==
    \E k \in 1..Len(snap), enabled \in BOOLEAN :
        /\ IF snap[k].ref > 0
           THEN /\ rules' = [rules EXCEPT ![snap[k].ref].enabled = enabled]
                /\ snap' = snap
           ELSE /\ snap' = [snap EXCEPT ![k].obj.enabled = enabled]
                /\ rules' = rules
        /\ ret' = Ret("snapshot.enabled", "", <<>>, "None", k, "")
        /\ UNCHANGED <<store, file, nextId, faults, conc>>

NextSnap ==
    \/ Construct
    \/ AddContainsRule(NoFaults)
    \/ RemoveRule(NoFaults)
    \/ ClearAllRules(NoFaults)
    \/ GetRules
    \/ SnapshotPop
    \/ SnapshotAppend
    \/ SnapshotSetEnabled

SpecSnap == Init /\ [][NextSnap]_vars

(***************************************************************************)
(* Calls that overlap.  The tools run on the server's worker threads and   *)
(* on_message on the bot's thread, all on the one response_manager, which  *)
(* takes no lock.  A call in progress is a record: its position pc, the    *)
(* position k of its loop over the list, the list itself when self.rules   *)
(* has been bound to another list since the loop began (det, lst), the     *)
(* rule object it found (obj), the index it found it at (i), the list it   *)
(* serializes (data) and its result.  A step is at least one bytecode of   *)
(* the call; the steps here are the places where another thread's step in  *)
(* between changes what the call does.                                      *)
(***************************************************************************)
Thread(op, arg, msg) ==
    [op |-> op, arg |-> arg, msg |-> msg, pc |-> "start", k |-> 1,
     det |-> FALSE, lst |-> <<>>, obj |-> [ref |-> 0, obj |-> NoObj],
     i |-> 0, data |-> <<>>, out |-> "", n |-> 0, s |-> ""]

\* the rule every concurrent add_rule call adds
AddedArgs == << <<"a">>, "r1", "contains" >>

MutatorCalls ==
    {Thread("add_rule", 0, <<>>), Thread("clear_all_rules", 0, <<>>)}
        \cup {Thread("remove_rule", rule_id, <<>>) : rule_id \in Ids}
        \cup {Thread("toggle_rule", rule_id, <<>>) : rule_id \in Ids}

ReaderCalls ==
    {Thread("get_rules", 0, <<>>)}
        \cup {Thread("find_matching_response", 0, message) : message \in Messages}

\* json.dump(data, f, ensure_ascii=False, indent=2): the number of
\* characters it writes.  An id is a uuid4 string of 36 characters.
EmptyDocLen == 17     \* {"rules": []} as laid out with indent=2
DocFrameLen == 21     \* the document around a list that is not empty
RuleFrameLen == 152   \* a rule's braces, keys, quotes, commas, indent and id
SepLen == 2           \* between two rules
TrueLen == 4
FalseLen == 5

RECURSIVE RulesLen(_, _)
RulesLen(rs, k) ==
    IF k > Len(rs) THEN 0
    ELSE RuleFrameLen + Len(rs[k].trigger) + Len(rs[k].response)
            + Len(rs[k].match_type)
            + (IF rs[k].enabled THEN TrueLen ELSE FalseLen)
            + (IF k > 1 THEN SepLen ELSE 0)
            + RulesLen(rs, k + 1)

JsonLen(rs) == IF rs = <<>> THEN EmptyDocLen ELSE DocFrameLen + RulesLen(rs, 1)

\* the list a call's loop runs over
TheList(t) == IF t.det THEN t.lst ELSE rules

\* the calls after self.rules.pop(i): the objects they hold stay the same
\* objects
AfterPop(th, rs, i) ==
    [u \in DOMAIN th |->
        [th[u] EXCEPT !.obj = SnapAfterPop(<<th[u].obj>>, rs, i)[1]]]

\* the calls after self.rules = []: a loop in progress goes on over the
\* list it began on
AfterRebind(th, rs) ==
    [u \in DOMAIN th |->
        [th[u] EXCEPT !.obj = SnapAfterRebind(<<th[u].obj>>, rs)[1],
                      !.lst = IF th[u].pc = "scan" /\ ~th[u].det THEN rs ELSE @,
                      !.det = IF th[u].pc = "scan" THEN TRUE ELSE @]]

\* call t goes on as record rec, the other calls being th
Go(th, t, rec) == conc' = [conc EXCEPT !.th = [th EXCEPT ![t] = rec]]

\* the store before any call overlaps another: constructed, and regex rules
\* added to it
SeqConstruct ==
    /\ conc = NoConc
    /\ Construct

SeqAddRule ==
    /\ conc = NoConc
    /\ AddRule(NoFaults)
    /\ ret'.arg = "regex"

\* the ids call c takes from uuid4()
Adds(c) == IF c.op = "add_rule" THEN 1 ELSE 0

\* two calls begin, one of C1 and one of C2
Fork(C1, C2) ==
    /\ store = "ready"
    /\ conc = NoConc
    /\ \E c1 \in C1, c2 \in C2 :
          /\ nextId + Adds(c1) + Adds(c2) <= MaxId + 1
          /\ conc' = [base |-> rules, bfile |-> file, flen |-> 0, th |-> <<c1, c2>>]
    /\ ret' = Ret("fork", "", <<>>, "", 0, "")
    /\ UNCHANGED <<store, rules, file, nextId, faults, snap>>

\* add_rule: the rule is made and appended
ThAppend ==
    \E t \in DOMAIN conc.th :
        LET c == conc.th[t]
            rule == Rule(AddedArgs[1], AddedArgs[2], AddedArgs[3], TRUE, nextId)
        IN  /\ c.op = "add_rule" /\ c.pc = "start"
            /\ rules' = Append(rules, rule)
            /\ nextId' = nextId + 1
            /\ Go(conc.th, t, [c EXCEPT !.pc = "data", !.n = nextId,
                                        !.obj = [ref |-> Len(rules) + 1, obj |-> NoObj]])
            /\ UNCHANGED <<store, file, faults, ret, snap>>

\* for ... in self.rules: the loop begins on the list self.rules is now
ThIter ==
    \E t \in DOMAIN conc.th :
        LET c == conc.th[t]
        IN  /\ c.op \in {"remove_rule", "toggle_rule", "find_matching_response"}
            /\ c.pc = "start"
            /\ Go(conc.th, t, [c EXCEPT !.pc = "scan", !.k = 1])
            /\ UNCHANGED <<store, rules, file, nextId, faults, ret, snap>>

\* remove_rule, toggle_rule: the loop takes the next rule of its list and
\* compares its id; toggle_rule flips the flag of the rule it finds
ThScanId ==
    \E t \in DOMAIN conc.th :
        LET c == conc.th[t]
            l == TheList(c)
        IN  /\ c.op \in {"remove_rule", "toggle_rule"} /\ c.pc = "scan"
            /\ IF c.k > Len(l)
               THEN /\ Go(conc.th, t, [c EXCEPT !.pc = "done",
                           !.out = IF c.op = "remove_rule" THEN "False" ELSE "None"])
                    /\ rules' = rules
               ELSE IF l[c.k].id # c.arg
               THEN /\ Go(conc.th, t, [c EXCEPT !.k = c.k + 1])
                    /\ rules' = rules
               ELSE IF c.op = "remove_rule"
               THEN /\ Go(conc.th, t, [c EXCEPT !.pc = "pop", !.i = c.k])
                    /\ rules' = rules
               ELSE IF c.det
               THEN /\ Go(conc.th, t, [c EXCEPT !.pc = "data",
                           !.lst[c.k].enabled = ~l[c.k].enabled,
                           !.obj = [ref |-> 0,
                                    obj |-> [l[c.k] EXCEPT !.enabled = ~l[c.k].enabled]]])
                    /\ rules' = rules
               ELSE /\ Go(conc.th, t, [c EXCEPT !.pc = "data",
                           !.obj = [ref |-> c.k, obj |-> NoObj]])
                    /\ rules' = [rules EXCEPT ![c.k].enabled = ~rules[c.k].enabled]
            /\ UNCHANGED <<store, file, nextId, faults, ret, snap>>

\* remove_rule: self.rules.pop(i), on the list self.rules is now
ThPop ==
    \E t \in DOMAIN conc.th :
        LET c == conc.th[t]
        IN  /\ c.op = "remove_rule" /\ c.pc = "pop"
            /\ IF c.i > Len(rules)
               THEN /\ Go(conc.th, t, [c EXCEPT !.pc = "done", !.out = "raise",
                                                !.s = "IndexError"])
                    /\ UNCHANGED <<rules, snap>>
               ELSE /\ Go(AfterPop(conc.th, rules, c.i), t,
                           [c EXCEPT !.pc = "data", !.n = rules[c.i].id])
                    /\ rules' = Pop(rules, c.i)
                    /\ snap' = SnapAfterPop(snap, rules, c.i)
            /\ UNCHANGED <<store, file, nextId, faults, ret>>

\* clear_all_rules: count = len(self.rules)
ThCount ==
    \E t \in DOMAIN conc.th :
        LET c == conc.th[t]
        IN  /\ c.op = "clear_all_rules" /\ c.pc = "start"
            /\ Go(conc.th, t, [c EXCEPT !.pc = "rebind", !.n = Len(rules)])
            /\ UNCHANGED <<store, rules, file, nextId, faults, ret, snap>>

\* clear_all_rules: self.rules = []
ThRebind ==
    \E t \in DOMAIN conc.th :
        LET c == conc.th[t]
        IN  /\ c.op = "clear_all_rules" /\ c.pc = "rebind"
            /\ Go(AfterRebind(conc.th, rules), t, [c EXCEPT !.pc = "data"])
            /\ rules' = <<>>
            /\ snap' = SnapAfterRebind(snap, rules)
            /\ UNCHANGED <<store, file, nextId, faults, ret>>

\* _save_rules: data = {"rules": [asdict(rule) for rule in self.rules]}
ThBuildData ==
    \E t \in DOMAIN conc.th :
        LET c == conc.th[t]
        IN  /\ c.pc = "data"
            /\ Go(conc.th, t, [c EXCEPT !.pc = "open", !.data = rules])
            /\ UNCHANGED <<store, rules, file, nextId, faults, ret, snap>>

\* _save_rules: open(self.config_path, "w") leaves the file empty
ThOpen ==
    \E t \in DOMAIN conc.th :
        LET c == conc.th[t]
        IN  /\ c.pc = "open"
            /\ file' = File("invalid", <<>>)
            /\ conc' = [conc EXCEPT !.flen = 0, !.th[t].pc = "write"]
            /\ UNCHANGED <<store, rules, nextId, faults, ret, snap>>

\* _save_rules: json.dump and the close write the document from the start
\* of the file, over what another call has written there since the open; a
\* longer document written there sticks out behind this one
ThWrite ==
    \E t \in DOMAIN conc.th :
        LET c == conc.th[t]
            len == JsonLen(c.data)
        IN  /\ c.pc = "write"
            /\ file' = IF len >= conc.flen THEN serialize(c.data)
                        ELSE File("invalid", <<>>)
            /\ conc' = [conc EXCEPT !.flen = IF len >= conc.flen THEN len ELSE @,
                                     !.th[t].pc = "return"]
            /\ UNCHANGED <<store, rules, nextId, faults, ret, snap>>

\* the return of add_rule, remove_rule, toggle_rule, clear_all_rules
ThReturn ==
    \E t \in DOMAIN conc.th :
        LET c == conc.th[t]
        IN  /\ c.pc = "return"
            /\ Go(conc.th, t,
                  [c EXCEPT !.pc = "done",
                            !.out = IF c.op = "add_rule" THEN "rule"
                                    ELSE IF c.op = "remove_rule" THEN "True"
                                    ELSE IF c.op = "clear_all_rules" THEN "count"
                                    ELSE IF Deref(rules, c.obj).enabled THEN "True"
                                    ELSE "False"])
            /\ UNCHANGED <<store, rules, file, nextId, faults, ret, snap>>

\* find_matching_response: the loop takes the next rule of its list and
\* asks it
ThFindScan ==
    \E t \in DOMAIN conc.th :
        LET c == conc.th[t]
            l == TheList(c)
        IN  /\ c.op = "find_matching_response" /\ c.pc = "scan"
            /\ IF c.k > Len(l)
               THEN Go(conc.th, t, [c EXCEPT !.pc = "done", !.out = "None"])
               ELSE LET m == matches(l[c.k], c.msg)
                    IN  IF m = "raise"
                        THEN Go(conc.th, t, [c EXCEPT !.pc = "done", !.out = "raise",
                                                     !.s = "re.error"])
                        ELSE IF m = "True"
                        THEN Go(conc.th, t, [c EXCEPT !.pc = "done", !.out = "response",
                                                     !.s = l[c.k].response])
                        ELSE Go(conc.th, t, [c EXCEPT !.k = c.k + 1])
            /\ UNCHANGED <<store, rules, file, nextId, faults, ret, snap>>

\* get_rules: self.rules.copy()
ThCopy ==
    \E t \in DOMAIN conc.th :
        LET c == conc.th[t]
        IN  /\ c.op = "get_rules" /\ c.pc = "start"
            /\ Go(conc.th, t, [c EXCEPT !.pc = "done", !.out = "list", !.data = rules])
            /\ UNCHANGED <<store, rules, file, nextId, faults, ret, snap>>

\* two mutating calls that overlap
NextConc ==
    \/ SeqConstruct
    \/ SeqAddRule
    \/ Fork(MutatorCalls, MutatorCalls)
    \/ ThAppend
    \/ ThIter
    \/ ThScanId
    \/ ThPop
    \/ ThCount
    \/ ThRebind
    \/ ThBuildData
    \/ ThOpen
    \/ ThWrite
    \/ ThReturn

SpecConc == Init /\ [][NextConc]_vars

\* a reading call that overlaps a mutating call
NextRead ==
    \/ SeqConstruct
    \/ SeqAddRule
    \/ Fork(ReaderCalls, MutatorCalls)
    \/ ThAppend
    \/ ThIter
    \/ ThScanId
    \/ ThPop
    \/ ThCount
    \/ ThRebind
    \/ ThBuildData
    \/ ThOpen
    \/ ThWrite
    \/ ThReturn
    \/ ThFindScan
    \/ ThCopy

SpecRead == Init /\ [][NextRead]_vars

(***************************************************************************)
(* AutoResponseRule.matches on its own: one rule of any trigger, match     *)
(* type and enabled flag, asked about any message.                         *)
(***************************************************************************)
InitMatch ==
    /\ store = "ready"
    /\ \E trigger \in Texts, match_type \in MatchTypes, enabled \in BOOLEAN :
          rules = <<Rule(trigger, "r1", match_type, enabled, FirstId)>>
    /\ file = File("absent", <<>>)
    /\ nextId = FirstId + 1
    /\ faults = 0
    /\ ret = Ret("start", "", <<>>, "", 0, "")
    /\ snap = <<>>
    /\ conc = NoConc

Matches ==
    \E message \in Texts :
        /\ ret' = Ret("matches", "", message, matches(rules[1], message), 0, "")
        /\ UNCHANGED <<store, rules, file, nextId, faults, snap, conc>>

NextMatch == Matches

SpecMatch == InitMatch /\ [][NextMatch]_vars

(***************************************************************************)
(* Properties.                                                             *)
(***************************************************************************)
\* the positions of the rules of rs that match text
Matching(rs, text) == {i \in 1..Len(rs) : matches(rs[i], text) = "True"}
Smallest(S) == CHOOSE i \in S : \A j \in S : i <= j

\* r is the first-match answer for text over rs
FirstMatchAnswer(rs, text, r) ==
    LET M == Matching(rs, text)
    IN  /\ (r.out = "None") <=> (M = {})
        /\ M # {} => /\ r.out = "response"
                     /\ r.n = Smallest(M)
                     /\ r.s = rs[Smallest(M)].response

\* C1: find_matching_response(text) returns the response of the matching
\* rule with the smallest position in stored order, whatever matches later,
\* and none exactly when the collection is empty or no rule matches; this
\* holds of every text over every reachable collection, and of the answer
\* every call gave.
C1_FirstMatchWins ==
    /\ \A text \in Texts :
          FirstMatchAnswer(rules, text, find_matching_response(rules, text))
    /\ ret.op = "find_matching_response" => FirstMatchAnswer(rules, ret.msg, ret)

\* a 'contains' rule followed by an 'exact' rule, both matching "a": the
\* call answered with the earlier rule's response
C1_Witness ==
    /\ ret.op = "find_matching_response"
    /\ ret.msg = <<"a">>
    /\ Len(rules) = 2
    /\ rules[1].match_type = "contains" /\ rules[1].id >= FirstId
    /\ rules[2].match_type = "exact" /\ rules[2].id > rules[1].id
    /\ Matching(rules, <<"a">>) = {1, 2}
    /\ rules[1].response # rules[2].response
    /\ ret.out = "response" /\ ret.s = rules[1].response

\* C2: a disabled rule matches no text, and no call of
\* find_matching_response answers with the response of a rule that is
\* disabled at the time of the call.
C2_DisabledNeverMatches ==
    /\ \A i \in 1..Len(rules) : \A text \in Texts :
          ~rules[i].enabled => matches(rules[i], text) = "False"
    /\ \A text \in Texts :
          LET r == find_matching_response(rules, text)
          IN  r.out = "response" => rules[r.n].enabled
    /\ (ret.op = "find_matching_response" /\ ret.out = "response")
          => rules[ret.n].enabled

\* the first rule is disabled and its trigger occurs in the message; the
\* call answered none
C2_Witness ==
    /\ ret.op = "find_matching_response"
    /\ ret.msg = <<"a">>
    /\ Len(rules) >= 1
    /\ ~rules[1].enabled
    /\ rules[1].match_type = "contains" /\ rules[1].trigger = <<"a">>
    /\ ret.out = "None"

\* the reference predicates of the match types
RefExact(text, trigger) ==
    /\ Len(text) = Len(trigger)
    /\ \A k \in 1..Len(text) : text[k] = trigger[k]
RefContains(text, trigger) ==
    \E i \in 1..(Len(text) + 1) : \E j \in (i - 1)..Len(text) :
        SubSeq(text, i, j) = trigger
RefStartsWith(text, trigger) ==
    /\ Len(trigger) <= Len(text)
    /\ SubSeq(text, 1, Len(trigger)) = trigger

\* m is what the reference predicates give for an enabled rule and a text
MatchesAsReference(rule, text, m) ==
    /\ m \in {"True", "False"}
    /\ rule.match_type = "exact" =>
          ((m = "True") <=> RefExact(text, rule.trigger))
    /\ rule.match_type = "contains" =>
          ((m = "True") <=> RefContains(text, rule.trigger))
    /\ rule.match_type = "startswith" =>
          ((m = "True") <=> RefStartsWith(text, rule.trigger))
    /\ rule.match_type \notin ValidMatchTypes => m = "False"
    /\ (rule.trigger = <<>> /\ text # <<>>
        /\ rule.match_type \in {"contains", "startswith"}) => m = "True"

\* C3: for an enabled rule, matches(text) is the reference predicate of its
\* match_type: equality for 'exact', contiguous substring for 'contains',
\* prefix for 'startswith', false for a match_type outside the four; so an
\* empty trigger matches every non-empty text under 'contains' and
\* 'startswith'.
C3_MatchesReference ==
    /\ \A i \in 1..Len(rules) : \A text \in Texts :
          rules[i].enabled => MatchesAsReference(rules[i], text, matches(rules[i], text))
    /\ (ret.op = "matches" /\ rules[1].enabled)
          => MatchesAsReference(rules[1], ret.msg, ret.out)

\* an enabled 'startswith' rule whose trigger occurs in the message, but not
\* at its start, was asked and answered False
C3_Witness ==
    /\ ret.op = "matches"
    /\ rules[1].enabled
    /\ rules[1].match_type = "startswith"
    /\ rules[1].trigger = <<"a">>
    /\ ret.msg = <<"A", "a">>
    /\ ret.out = "False"

\* the rules of rs other than the 'regex' rules whose trigger does not compile
IsBadRegex(rule) == rule.match_type = "regex" /\ ~re_compiles(rule.trigger)
WithoutBadRegex(rs) == SelectSeq(rs, LAMBDA rule : ~IsBadRegex(rule))

\* C4: a 'regex' rule whose trigger does not compile answers False to every
\* text and never raises; find_matching_response over a collection holding
\* such rules does not raise and answers as it would without them, i.e. it
\* goes on to the later rules.
C4_BadRegexNeverRaises ==
    /\ \A i \in 1..Len(rules) : \A text \in Texts :
          IsBadRegex(rules[i]) => matches(rules[i], text) = "False"
    /\ \A text \in Texts :
          LET r == find_matching_response(rules, text)
              q == find_matching_response(WithoutBadRegex(rules), text)
          IN  /\ r.out # "raise"
              /\ r.out = q.out
              /\ r.s = q.s
    /\ ret.op = "find_matching_response" => ret.out # "raise"

\* the first rule is an enabled 'regex' rule with the trigger "(", and the
\* call went past it and answered with the second rule
C4_Witness ==
    /\ ret.op = "find_matching_response"
    /\ Len(rules) = 2
    /\ rules[1].enabled /\ IsBadRegex(rules[1])
    /\ ret.out = "response" /\ ret.n = 2

Mutators == {"add_rule", "remove_rule", "toggle_rule", "clear_all_rules"}

\* C5: write-through.  Every add_rule, remove_rule, toggle_rule or
\* clear_all_rules call that returns (no write failed) and changed the
\* collection leaves the backing file equal to the serialization of the
\* collection it leaves in memory.
C5_WriteThrough ==
    [][(ret'.op \in Mutators /\ ret'.out # "raise" /\ rules' # rules)
          => file' = serialize(rules')]_vars

\* toggle_rule has disabled a rule and the file holds the collection with
\* the rule disabled
C5_Witness ==
    /\ ret.op = "toggle_rule"
    /\ ret.out = "False"
    /\ \E i \in 1..Len(rules) : rules[i].id = ret.n /\ ~rules[i].enabled
    /\ file = serialize(rules)

\* C6: round trip.  Loading the file that a save of the collection writes
\* gives the collection back: the same rules, field by field, in the same
\* order, and no exception.
C6_RoundTrip ==
    store = "ready" =>
        LET l == _load_rules(serialize(rules), nextId)
        IN  /\ l.raised = ""
            /\ l.rules = rules
            /\ Len(l.rules) = Len(rules)

\* a store constructed on the file that a save wrote: it holds a rule that
\* add_rule created and a rule that is disabled
C6_Witness ==
    /\ ret.op = "__init__"
    /\ store = "ready"
    /\ file = serialize(rules)
    /\ \E i \in 1..Len(rules) : rules[i].id >= FirstId
    /\ \E i \in 1..Len(rules) : ~rules[i].enabled

\* the backing file exists and is not a document of valid rule records
Malformed(f) ==
    \/ f.state \in {"invalid", "nonobject", "rulesscalar"}
    \/ f.state = "ruleslist" /\ \E k \in 1..Len(f.items) : ctor_raises(f.items[k])

\* C7: corruption recovery.  Constructing the store on a malformed backing
\* file, or with no backing file, does not raise and gives an empty
\* collection.
C7_CorruptionRecovery ==
    (ret.op = "__init__" /\ (Malformed(file) \/ file.state = "absent"))
        => (ret.out # "raise" /\ store = "ready" /\ rules = <<>>)

\* C8: no two rules of the collection have the same id.
C8_UniqueIds ==
    \A i, j \in 1..Len(rules) : i # j => rules[i].id # rules[j].id

\* C9: every rule of the collection has one of the four match types.
C9_MatchTypeEnumerated ==
    \A i \in 1..Len(rules) : rules[i].match_type \in ValidMatchTypes

\* C10: the tool add_auto_response_rule, called with a match_type outside
\* the four, returns an error message and changes neither the collection nor
\* the backing file, and takes no id.
C10_ToolRejectsMatchType ==
    [][(ret'.op = "add_auto_response_rule" /\ ret'.arg \notin ValidMatchTypes)
          => /\ ret'.out = "error_string"
             /\ rules' = rules
             /\ file' = file
             /\ nextId' = nextId]_vars

\* the tool was called with match_type "fuzzy" on a store that holds rules
\* and answered with the error message
C10_Witness ==
    /\ ret.op = "add_auto_response_rule"
    /\ ret.arg = "fuzzy"
    /\ ret.out = "error_string"
    /\ Len(rules) > 0
    /\ file = serialize(rules)

\* whether some rule of rs has this id, and the position of the first
HasId(rs, rule_id) == \E i \in 1..Len(rs) : rs[i].id = rule_id
FirstWithId(rs, rule_id) ==
    CHOOSE i \in 1..Len(rs) :
        rs[i].id = rule_id /\ \A j \in 1..(i - 1) : rs[j].id # rule_id

C13_ToggleFrame ==
    [][ret'.op = "toggle_rule" =>
          IF HasId(rules, ret'.n)
          THEN LET i == FirstWithId(rules, ret'.n)
               IN  /\ Len(rules') = Len(rules)
                   /\ rules'[i].enabled = ~rules[i].enabled
                   /\ ret'.out = (IF rules'[i].enabled THEN "True" ELSE "False")
                   /\ \A k \in 1..Len(rules) :
                         /\ k # i => rules'[k] = rules[k]
                         /\ \A fld \in FieldNames \ {"enabled"} :
                               rules'[k][fld] = rules[k][fld]
                   /\ file' = serialize(rules')
          ELSE /\ ret'.out = "None"
               /\ rules' = rules
               /\ file' = file]_vars

\* toggle_rule has enabled the second of two rules; the first is disabled
C13_Witness ==
    /\ ret.op = "toggle_rule"
    /\ ret.out = "True"
    /\ Len(rules) = 2
    /\ rules[2].id = ret.n /\ rules[2].enabled
    /\ ~rules[1].enabled
    /\ file = serialize(rules)

\* the state two successive toggle_rule(id) calls leave, and what they return
ToggledTwice(rs, f, rule_id) ==
    LET t1 == toggle_rule(rs, f, rule_id, "ok")
        t2 == toggle_rule(t1.rules, t1.file, rule_id, "ok")
    IN  [rules |-> t2.rules, file |-> t2.file, first |-> t1.out, second |-> t2.out]

\* C14 as claimed: two successive toggle_rule(id) calls on an existing id
\* restore the collection and the content of the backing file.
C14_ToggleTwiceRestoresAll ==
    store = "ready" =>
        \A i \in 1..Len(rules) :
            LET t == ToggledTwice(rules, file, rules[i].id)
            IN  t.rules = rules /\ t.file = file

\* C14 as amended: two successive toggle_rule(id) calls on an existing id
\* restore the enabled flag and the whole collection; the file then holds
\* the serialization of the collection, which is the file as it was before
\* whenever the file was in step with the collection before.
C14_ToggleTwiceRestores ==
    store = "ready" =>
        \A i \in 1..Len(rules) :
            LET id == rules[i].id
                k == FirstWithId(rules, id)
                t == ToggledTwice(rules, file, id)
            IN  /\ t.rules = rules
                /\ t.first = (IF rules[k].enabled THEN "False" ELSE "True")
                /\ t.second = (IF rules[k].enabled THEN "True" ELSE "False")
                /\ t.file = serialize(rules)
                /\ file = serialize(rules) => t.file = file

\* a rule that add_rule created (enabled) has been disabled and enabled
\* again, and the file holds the collection
C14_Witness ==
    /\ ret.op = "toggle_rule"
    /\ ret.out = "True"
    /\ \E i \in 1..Len(rules) :
          /\ rules[i].id = ret.n /\ rules[i].id >= FirstId
          /\ rules[i].enabled
          /\ ToggledTwice(rules, file, rules[i].id).rules = rules
    /\ file = serialize(rules)

\* C15: clear_all_rules returns the number of rules the collection had and
\* leaves it empty; the file it leaves loads as an empty collection, a store
\* constructed next on that file is empty, and find_matching_response then
\* answers none to every text.
C15_ClearAll ==
    [][/\ ret'.op = "clear_all_rules" =>
            /\ ret'.out = "count"
            /\ ret'.n = Len(rules)
            /\ rules' = <<>>
            /\ LET l == _load_rules(file', nextId')
               IN  l.raised = "" /\ l.rules = <<>>
            /\ \A text \in Texts : find_matching_response(rules', text).out = "None"
       /\ (ret.op = "clear_all_rules" /\ ret'.op = "__init__") =>
            /\ store' = "ready"
            /\ rules' = <<>>
            /\ \A text \in Texts : find_matching_response(rules', text).out = "None"
      ]_vars

\* clear_all_rules has removed two rules: it returned 2, the collection is
\* empty and the file holds the empty collection
C15_Witness ==
    /\ ret.op = "clear_all_rules"
    /\ ret.out = "count" /\ ret.n = 2
    /\ rules = <<>>
    /\ file = serialize(<<>>)

(***************************************************************************)
(* C16: every administrative tool returns a string and never raises,      *)
(* whatever it is given: after any tool call the outcome is a string.      *)
(* The code breaks it: add_auto_response_rule passes add_rule keywords it  *)
(* does not take, and list_auto_response_rules passes get_rules an         *)
(* argument it does not take; both calls raise TypeError.                  *)
(***************************************************************************)
ToolOps == {"add_auto_response_rule", "remove_auto_response_rule",
            "list_auto_response_rules", "toggle_auto_response_rule",
            "tool_clear_all_rules"}

C16_ToolsNeverRaise ==
    ret.op \in ToolOps => ret.out \in {"ok_string", "error_string"}

(***************************************************************************)
(* C17: when the write to the backing file fails during add, remove,       *)
(* toggle or clear, the call raises instead of returning a result, and the *)
(* collection in memory has the rule added, removed, toggled or cleared.   *)
(* A call that returns a result of a change has written the collection to  *)
(* the file, so a call is never let return over a failed write.            *)
(***************************************************************************)
\* the collection in memory after the mutation the last call attempted
Attempted(rs, rs2, nid, r) ==
    IF r.op = "add_rule"
    THEN /\ Len(rs2) = Len(rs) + 1
         /\ SubSeq(rs2, 1, Len(rs)) = rs
         /\ rs2[Len(rs2)].id = nid
         /\ rs2[Len(rs2)].match_type = r.arg
         /\ rs2[Len(rs2)].enabled
    ELSE IF r.op = "remove_rule"
    THEN /\ HasId(rs, r.n)
         /\ rs2 = Pop(rs, IndexOfId(rs, r.n, 1))
    ELSE IF r.op = "toggle_rule"
    THEN /\ HasId(rs, r.n)
         /\ LET i == IndexOfId(rs, r.n, 1)
            IN  rs2 = [rs EXCEPT ![i].enabled = ~rs[i].enabled]
    ELSE rs2 = <<>>

\* the results a mutating operation returns when it has changed something
ChangeResults == {"rule", "True", "False", "count"}

C17_WriteFailureSurfaces ==
    [][ret'.op \in Mutators =>
          /\ ret'.out = "raise" =>
                /\ ret'.s = "OSError"
                /\ faults' = faults + 1
                /\ Attempted(rules, rules', nextId, ret')
          /\ (ret'.out \in ChangeResults /\ ~(ret'.op = "remove_rule" /\ ret'.out = "False")) =>
                /\ faults' = faults
                /\ file' = serialize(rules')]_vars

\* a toggle has raised OSError: the flag is flipped in memory and the file
\* does not hold the collection
C17_Witness ==
    /\ ret.op = "toggle_rule"
    /\ ret.out = "raise"
    /\ ret.s = "OSError"
    /\ rules # <<>>
    /\ file # serialize(rules)

(***************************************************************************)
(* C18: a save that fails at any point does not corrupt what was persisted *)
(* before: after a mutating call has raised, the backing file loads either *)
(* to the collection it loaded to before the call or to the collection     *)
(* that was being saved.  The code breaks it: open(path, "w") has emptied  *)
(* the file when the write fails, and the file then loads to no rules.     *)
(***************************************************************************)
Loaded(f, nid) == _load_rules(f, nid).rules

C18_FailedSaveKeepsPersisted ==
    [][(ret'.op \in Mutators /\ ret'.out = "raise") =>
          \/ Loaded(file', nextId') = Loaded(file, nextId')
          \/ Loaded(file', nextId') = rules']_vars

(***************************************************************************)
(* C11: a caller cannot change the store through the list get_rules gave   *)
(* it: taking elements out of the list, appending to it or assigning a     *)
(* field of a rule in it leaves what get_rules and find_matching_response  *)
(* on the store give as it was.  The code breaks it: the list is a copy    *)
(* but its elements are the store's own rule objects, so assigning         *)
(* enabled on one of them changes the store's rule.                        *)
(***************************************************************************)
CallerOps == {"snapshot.pop", "snapshot.append", "snapshot.enabled"}

\* the rules a get_rules call gives, as values
Listed(rs) == [k \in 1..Len(rs) |-> Deref(rs, get_rules(rs)[k])]

C11_SnapshotIsolated ==
    [][ret'.op \in CallerOps =>
          /\ Listed(rules') = Listed(rules)
          /\ \A message \in Messages :
                find_matching_response(rules', message)
                    = find_matching_response(rules, message)]_vars

(***************************************************************************)
(* C19: mutating calls that overlap exclude one another: when both have    *)
(* ended, the collection in memory and the backing file are what the two   *)
(* calls give when one runs after the other, in one order or the other.    *)
(* The code breaks it: the manager takes no lock, so a call saves a list   *)
(* it read before the other call's change, and pops by an index another    *)
(* call has shifted.                                                        *)
(***************************************************************************)
\* call c run on its own on collection rs and file f
RunAlone(c, rs, f) ==
    IF c.op = "add_rule"
    THEN add_rule(rs, f, c.n, AddedArgs[1], AddedArgs[2], AddedArgs[3], "ok")
    ELSE IF c.op = "remove_rule" THEN remove_rule(rs, f, c.arg, "ok")
    ELSE IF c.op = "toggle_rule" THEN toggle_rule(rs, f, c.arg, "ok")
    ELSE clear_all_rules(rs, f, "ok")

\* call a, then call b
OneAfterTheOther(a, b) ==
    LET first == RunAlone(a, conc.base, conc.bfile)
    IN  RunAlone(b, first.rules, first.file)

AllDone == conc.th # <<>> /\ \A t \in DOMAIN conc.th : conc.th[t].pc = "done"

C19_Serializable ==
    (AllDone /\ \A t \in DOMAIN conc.th : conc.th[t].op \in Mutators) =>
        \E a \in DOMAIN conc.th, b \in DOMAIN conc.th :
            /\ a # b
            /\ rules = OneAfterTheOther(conc.th[a], conc.th[b]).rules
            /\ file = OneAfterTheOther(conc.th[a], conc.th[b]).file

(***************************************************************************)
(* C20: a find_matching_response or get_rules call does not overlap a      *)
(* mutation: what it returns is what it returns on the collection as it    *)
(* was before the mutating call or as it is after it.  The code breaks     *)
(* it: the loop of find_matching_response goes by position over the list   *)
(* remove_rule pops from, and passes over the rule that moves up.          *)
(***************************************************************************)
\* what reading call c returns on collection rs
ReadAlone(c, rs) ==
    IF c.op = "get_rules" THEN [out |-> "list", s |-> "", data |-> rs]
    ELSE LET r == find_matching_response(rs, c.msg)
         IN  [out |-> r.out, s |-> r.s, data |-> <<>>]

C20_ReadNotOverlapped ==
    (AllDone /\ conc.th[1].op \notin Mutators) =>
        LET c == conc.th[1]
            got == [out |-> c.out, s |-> c.s, data |-> c.data]
            after == RunAlone(conc.th[2], conc.base, conc.bfile).rules
        IN  got \in {ReadAlone(c, conc.base), ReadAlone(c, after)}

====
